---- MODULE Spec2Model ----
(***************************************************************************)
(* A model of momentovitaebot (src/bot.py): the aiogram dispatcher with    *)
(* its handlers in registration order, the per-user FSM state held in      *)
(* MemoryStorage, the SQLite tables users and messages, and the weekly     *)
(* broadcast job.  A handler runs without interruption up to each          *)
(* `await message.answer(...)`; while that send is pending another update  *)
(* or the job may run.  Storage calls and sends may fail.                  *)
(*                                                                         *)
(* A text is a sequence of symbols: the characters of a date string, a     *)
(* blank, or one symbol standing for a whole word (a command, a button     *)
(* label, any other word).                                                 *)
(***************************************************************************)
EXTENDS Integers, Sequences, FiniteSets, Bags, TLC

-----------------------------------------------------------------------------
(* Bounds of the model *)

\* units of work under way at the same time: handler runs suspended at an
\* await, and the run of the weekly job
MaxInFlight == 2
\* rows the messages table may hold
MaxLog == 1
\* weeksLived given to the progress bar: from MaxWeeksAhead weeks before the
\* birth date (a date in the future) to MaxWeeks weeks after it
MaxWeeksAhead == 60
MaxWeeks == 5200
\* days from the birth date to today: from MaxDaysAhead days before it to
\* MaxDays days after it
MaxDaysAhead == 20
MaxDays == 32800

-----------------------------------------------------------------------------
(* Values *)

\* Python's None: of get_user, of message.text, of the FSM state's absence
None == <<"None">>

Users == {1, 2}

\* the ADMIN_ID of the environment, as int() reads it
ADMIN_ID == 1

TARGET_YEARS_DISPLAY == 90
WEEKS_IN_YEAR == 52

Digit == {"0", "1", "2", "3", "4", "5", "6", "7", "8", "9"}
Digit19 == Digit \ {"0"}
DigitVal(c) == CHOOSE n \in 0..9 : <<"0", "1", "2", "3", "4", "5", "6", "7", "8", "9">>[n + 1] = c

\* BotTexts.BUTTONS: each label is one symbol
BUTTONS == [years |-> <<"btn:years">>, hours |-> <<"btn:hours">>,
            progress |-> <<"btn:progress">>, change_date |-> <<"btn:change_date">>,
            motivation |-> <<"btn:motivation">>]

\* the s[i] of Python, "" past the end
At(s, i) == IF i >= 1 /\ i <= Len(s) THEN s[i] ELSE ""

\* str.strip(): blanks removed at both ends
RECURSIVE lstrip(_)
lstrip(s) == IF s # <<>> /\ Head(s) = " " THEN lstrip(Tail(s)) ELSE s

RECURSIVE rstrip(_)
rstrip(s) == IF s # <<>> /\ s[Len(s)] = " " THEN rstrip(SubSeq(s, 1, Len(s) - 1)) ELSE s

strip(s) == rstrip(lstrip(s))

-----------------------------------------------------------------------------
(* The messages that arrive *)

DATE_15_05_1990 == <<"1", "5", ".", "0", "5", ".", "1", "9", "9", "0">>
\* a date with one-digit day and month, sent with blanks around it
DATE_PADDED == <<" ", "1", ".", "1", ".", "2", "0", "0", "0", " ">>
NOT_A_DATE == <<"not-a-date">>

CMD_START == <<"/start">>
CMD_HELP == <<"/help">>
CMD_SUPERSTATS == <<"/superstats">>

ButtonLabels == {BUTTONS.years, BUTTONS.hours, BUTTONS.progress,
                 BUTTONS.motivation, BUTTONS.change_date}

\* message.text of an update; None for a message without text (a photo)
Texts == {CMD_START, CMD_HELP, CMD_SUPERSTATS, DATE_15_05_1990, DATE_PADDED,
          NOT_A_DATE, None} \cup ButtonLabels

-----------------------------------------------------------------------------
(* validate_date: datetime.strptime(date_str, "%d.%m.%Y").date(), None on  *)
(* ValueError.  strptime matches the regular expression                    *)
(*   (3[0-1]|[1-2]\d|0[1-9]|[1-9]| [1-9])\.(1[0-2]|0[1-9]|[1-9])\.(\d\d\d\d) *)
(* at the start of the string, rejects unconverted data after it, and      *)
(* builds the date, which rejects year 0 and a day the month lacks.        *)
(* A date is <<year, month, day>>; the invalid result is NoDate.           *)

NoDate == <<>>

\* symbols matched by %d at the start of s, 0 when none
MatchDay(s) ==
  LET a == At(s, 1)
      b == At(s, 2)
  IN IF a = "3" /\ b \in {"0", "1"} THEN 2
     ELSE IF a \in {"1", "2"} /\ b \in Digit THEN 2
     ELSE IF a = "0" /\ b \in Digit19 THEN 2
     ELSE IF a \in Digit19 THEN 1
     ELSE IF a = " " /\ b \in Digit19 THEN 2
     ELSE 0

\* symbols matched by %m at the start of s, 0 when none
MatchMonth(s) ==
  LET a == At(s, 1)
      b == At(s, 2)
  IN IF a = "1" /\ b \in {"0", "1", "2"} THEN 2
     ELSE IF a = "0" /\ b \in Digit19 THEN 2
     ELSE IF a \in Digit19 THEN 1
     ELSE 0

\* int() of one or two matched symbols, a leading blank ignored
TwoDigitVal(s) ==
  IF Len(s) = 1 THEN DigitVal(s[1])
  ELSE IF s[1] = " " THEN DigitVal(s[2])
  ELSE 10 * DigitVal(s[1]) + DigitVal(s[2])

IsLeap(y) == (y % 4 = 0 /\ y % 100 # 0) \/ y % 400 = 0

DaysInMonth(y, m) ==
  IF m = 2 THEN (IF IsLeap(y) THEN 29 ELSE 28)
  ELSE IF m \in {4, 6, 9, 11} THEN 30
  ELSE 31

strptime(date_str) ==
  LET dl == MatchDay(date_str)
      r1 == SubSeq(date_str, dl + 2, Len(date_str))
      ml == MatchMonth(r1)
      r2 == SubSeq(r1, ml + 2, Len(r1))
  IN IF dl = 0 \/ At(date_str, dl + 1) # "." THEN NoDate
     ELSE IF ml = 0 \/ At(r1, ml + 1) # "." THEN NoDate
     ELSE IF Len(r2) # 4 \/ \E i \in 1..4 : r2[i] \notin Digit THEN NoDate
     ELSE LET day == TwoDigitVal(SubSeq(date_str, 1, dl))
              month == TwoDigitVal(SubSeq(r1, 1, ml))
              year == 1000 * DigitVal(r2[1]) + 100 * DigitVal(r2[2])
                      + 10 * DigitVal(r2[3]) + DigitVal(r2[4])
          IN IF year < 1 \/ day > DaysInMonth(year, month) THEN NoDate
             ELSE <<year, month, day>>

\* the strings of the model: the texts that arrive and what strip makes of them
Strings == (Texts \ {None}) \cup {strip(text) : text \in Texts \ {None}}

\* strptime of each of them, worked out once
Parsed == [s \in Strings |-> strptime(s)]

\* try: return strptime(...).date()  except ValueError: return None
validate_date(date_str) ==
  IF date_str \in Strings THEN Parsed[date_str] ELSE strptime(date_str)

-----------------------------------------------------------------------------
(* The dispatcher: aiogram calls the first registered handler whose        *)
(* filters accept the message.                                             *)

WAITING_BIRTH_DATE == "WAITING_BIRTH_DATE"
WAITING_NEW_BIRTH_DATE == "WAITING_NEW_BIRTH_DATE"
\* no FSM state set (MemoryStorage holds None)
NoState == "None"
States == {NoState, WAITING_BIRTH_DATE, WAITING_NEW_BIRTH_DATE}

\* the first blank-separated word of s (text.split(maxsplit=1)[0])
RECURSIVE TakeWord(_)
TakeWord(s) == IF s = <<>> \/ Head(s) = " " THEN <<>> ELSE <<Head(s)>> \o TakeWord(Tail(s))

\* aiogram's Command(*names) filter on message.text
Command(text, names) ==
  /\ text # None
  /\ \E n \in names : TakeWord(lstrip(text)) = <<n>>

\* the handlers in the order the decorators register them
handlers == <<"start_handler", "process_birth_date", "handle_years", "handle_hours",
              "handle_progress", "handle_motivation", "handle_change_date",
              "process_new_birth_date", "fallback_handler", "admin_stats_handler">>

\* the filter each decorator gives its handler
Filter(h, raw_state, text) ==
  CASE h = "start_handler" -> Command(text, {"/start", "/help"})
    [] h = "process_birth_date" -> raw_state = WAITING_BIRTH_DATE
    [] h = "handle_years" -> text = BUTTONS.years
    [] h = "handle_hours" -> text = BUTTONS.hours
    [] h = "handle_progress" -> text = BUTTONS.progress
    [] h = "handle_motivation" -> text = BUTTONS.motivation
    [] h = "handle_change_date" -> text = BUTTONS.change_date
    [] h = "process_new_birth_date" -> raw_state = WAITING_NEW_BIRTH_DATE
    [] h = "fallback_handler" -> TRUE
    [] h = "admin_stats_handler" -> Command(text, {"/superstats"})

\* the handler the dispatcher calls for a message of a sender in raw_state
RECURSIVE FirstMatch(_, _, _)
FirstMatch(k, raw_state, text) ==
  IF Filter(handlers[k], raw_state, text) THEN handlers[k]
  ELSE FirstMatch(k + 1, raw_state, text)

resolve(raw_state, text) == FirstMatch(1, raw_state, text)

-----------------------------------------------------------------------------
(* The SQLite tables.  users is a set of rows <<user_id, birth_date>>,     *)
(* messages the sequence of rows <<user_id, text>> in id order.  ok tells  *)
(* whether the storage call goes through; when it does not, sqlite3        *)
(* raises and the function's except clause takes over.                     *)

RowsOf(tbl, user_id) == {r \in tbl : r[1] = user_id}

\* save_user with INSERT in place of INSERT OR REPLACE on a table without the key
save_user_insert(tbl, user_id, birth_date, ok) ==
  IF ok THEN tbl \cup {<<user_id, birth_date>>} ELSE tbl

\* INSERT OR REPLACE on the primary key user_id
save_user(tbl, user_id, birth_date, ok) ==
  IF ok THEN (tbl \ RowsOf(tbl, user_id)) \cup {<<user_id, birth_date>>}
  ELSE tbl

\* get_user without WHERE user_id = ?: the first row of the table
get_user_unkeyed(tbl, user_id, ok) ==
  IF ok /\ tbl # {}
  THEN (CHOOSE r \in tbl : \A q \in tbl : r[1] <= q[1])[2]
  ELSE None

\* get_user returning what an earlier read left when the query fails
get_user_stale(tbl, user_id, ok) ==
  IF RowsOf(tbl, user_id) # {}
  THEN (CHOOSE r \in RowsOf(tbl, user_id) : TRUE)[2]
  ELSE None

\* SELECT birth_date ... WHERE user_id = ?, fetchone()
get_user(tbl, user_id, ok) ==
  IF ok /\ RowsOf(tbl, user_id) # {}
  THEN (CHOOSE r \in RowsOf(tbl, user_id) : TRUE)[2]
  ELSE None

\* the rows of a table scan, in user_id (rowid) order
RECURSIVE RowsInOrder(_)
RowsInOrder(tbl) ==
  IF tbl = {} THEN <<>>
  ELSE LET r == CHOOSE x \in tbl : \A y \in tbl : x[1] <= y[1]
       IN <<r>> \o RowsInOrder(tbl \ {r})

get_all_users(tbl, ok) == IF ok THEN RowsInOrder(tbl) ELSE <<>>

log_user_message(log, user_id, text, ok) ==
  IF ok THEN Append(log, <<user_id, text>>) ELSE log

\* SELECT COUNT(*) FROM messages, made in admin_stats_handler itself: an
\* sqlite3 error leaves the with block and reaches the handler's except clause
total_messages(log, ok) ==
  IF ok THEN [raised |-> FALSE, value |-> Len(log)] ELSE [raised |-> TRUE, value |-> None]

\* the rows of user_id in the log
MsgCount(log, user_id) == Cardinality({i \in 1..Len(log) : log[i][1] = user_id})

\* the senders in the log by falling count
RECURSIVE ByCount(_, _)
ByCount(log, ids) ==
  IF ids = {} THEN <<>>
  ELSE LET top == CHOOSE x \in ids :
                    \A y \in ids : MsgCount(log, x) >= MsgCount(log, y)
       IN <<<<top, MsgCount(log, top)>>>> \o ByCount(log, ids \ {top})

\* SELECT user_id, COUNT(*) ... GROUP BY user_id ORDER BY msg_count DESC LIMIT 5,
\* made in admin_stats_handler itself
top_users(log, ok) ==
  IF ok
  THEN LET all == ByCount(log, {log[i][1] : i \in 1..Len(log)})
       IN [raised |-> FALSE, value |-> SubSeq(all, 1, IF Len(all) < 5 THEN Len(all) ELSE 5)]
  ELSE [raised |-> TRUE, value |-> None]

\* database.py, the module bot.py no longer imports: get_user has no try block
database_get_user(tbl, user_id, ok) ==
  IF ok THEN [raised |-> FALSE, value |-> get_user(tbl, user_id, TRUE)]
  ELSE [raised |-> TRUE, value |-> None]

\* database.py: save_user raises ValueError for a string strptime rejects and
\* lets an sqlite3 error out
database_save_user(tbl, user_id, birth_date, ok) ==
  IF ~ok \/ strptime(birth_date) = NoDate THEN [raised |-> TRUE, table |-> tbl]
  ELSE [raised |-> FALSE, table |-> save_user(tbl, user_id, birth_date, TRUE)]

\* resolve, tabulated over the states and the texts that arrive
Handler == [raw_state \in States |-> [text \in Texts |-> resolve(raw_state, text)]]

-----------------------------------------------------------------------------
(* State *)

VARIABLES
  users,     \* table users: a set of rows <<user_id, birth_date>>
  messages,  \* table messages: the rows <<user_id, text>>, oldest first
  fsm,       \* MemoryStorage: the FSM state of each user
  tasks,     \* the handler runs suspended at `await message.answer`: a bag
  job,       \* the run of weekly_updates_task
  call       \* the last direct call of a function and its result

vars == <<users, messages, fsm, tasks, job, call>>

NoCall == [op |-> "none"]

\* a handler run suspended at a send: the reply being sent (which names the
\* handler's branch), the FSM write the handler makes once the send returns
\* ("keep": none), and whether the send stands inside the handler's try block
Task(u, reply, after, guarded) ==
  [uid |-> u, reply |-> reply, after |-> after, guarded |-> guarded]

\* an earlier update of u is suspended before its FSM write
WritePending(u) == \E t \in BagToSet(tasks) : t.uid = u /\ t.after # "keep"

\* the job between runs
IdleJob == [pc |-> "idle", snapshot |-> <<>>, i |-> 0, attempts |-> <<>>]

\* the units of work under way
InFlight == BagCardinality(tasks) + (IF job.pc = "sending" THEN 1 ELSE 0)

Init ==
  /\ users = {}
  /\ messages = <<>>
  /\ fsm = [u \in Users |-> NoState]
  /\ tasks = EmptyBag
  /\ job = IdleJob
  /\ call = NoCall

\* the dispatcher calls handler h for the update (u, text)
Called(u, text, h) == Handler[fsm[u]][text] = h /\ InFlight < MaxInFlight

\* the handler runs to its first send
Begin(u, reply, after, guarded) ==
  /\ tasks' = tasks (+) SetToBag({Task(u, reply, after, guarded)})
  /\ UNCHANGED <<fsm, job, call>>

-----------------------------------------------------------------------------
(* The handlers, each up to its first send *)

\* @dp.message(Command("start", "help"))
start_handler(u, text) ==
  /\ Called(u, text, "start_handler")
  /\ \E ok \in BOOLEAN :
     LET birth_date == get_user(users, u, ok)
     IN IF birth_date # None /\ birth_date # <<>>
        THEN IF validate_date(birth_date) = NoDate
             THEN Begin(u, "DATE_FORMAT_ERROR", WAITING_BIRTH_DATE, TRUE)
             ELSE Begin(u, "WELCOME_RETURN", "keep", TRUE)
        ELSE Begin(u, "WELCOME_NEW", WAITING_BIRTH_DATE, TRUE)
  /\ UNCHANGED <<users, messages>>

\* AcceptDate saving message.text as it came, not the stripped input it validated
AcceptDate_unstripped(u, text, confirmation, ok) ==
  IF text = None
  THEN /\ Begin(u, "INTERNAL_ERROR", "keep", FALSE)
       /\ UNCHANGED <<users, messages>>
  ELSE IF validate_date(strip(text)) = NoDate
  THEN /\ Begin(u, "INVALID_DATE_RESPONSE", "keep", TRUE)
       /\ UNCHANGED <<users, messages>>
  ELSE /\ users' = save_user(users, u, text, ok)
       /\ Begin(u, confirmation, "clear", TRUE)
       /\ UNCHANGED messages

\* the body the two date handlers share: strip, validate, save, confirm;
\* message.text.strip() raises when the message has no text
AcceptDate(u, text, confirmation, ok) ==
  LET user_input == strip(text)
  IN IF text = None
     THEN /\ Begin(u, "INTERNAL_ERROR", "keep", FALSE)
          /\ UNCHANGED <<users, messages>>
     ELSE IF validate_date(user_input) = NoDate
     THEN /\ Begin(u, "INVALID_DATE_RESPONSE", "keep", TRUE)
          /\ UNCHANGED <<users, messages>>
     ELSE /\ users' = save_user(users, u, user_input, ok)
          /\ Begin(u, confirmation, "clear", TRUE)
          /\ UNCHANGED messages

\* @dp.message(UserState.WAITING_BIRTH_DATE)
process_birth_date(u, text) ==
  /\ Called(u, text, "process_birth_date")
  /\ \E ok \in BOOLEAN : AcceptDate(u, text, "DATE_SAVED", ok)

\* Report with state.clear() after the report is sent
Report_clearing(u, report, ok) ==
  LET birth_date_str == get_user(users, u, ok)
  IN /\ IF birth_date_str = None \/ birth_date_str = <<>>
        THEN Begin(u, "ASK_START", "keep", TRUE)
        ELSE IF validate_date(birth_date_str) = NoDate
        THEN Begin(u, "DATE_FORMAT_ERROR", "keep", TRUE)
        ELSE Begin(u, report, "clear", TRUE)
     /\ UNCHANGED <<users, messages>>

\* the body the three report handlers share: read the date, check it, report
Report(u, report, ok) ==
  LET birth_date_str == get_user(users, u, ok)
  IN /\ IF birth_date_str = None \/ birth_date_str = <<>>
        THEN Begin(u, "ASK_START", "keep", TRUE)
        ELSE IF validate_date(birth_date_str) = NoDate
        THEN Begin(u, "DATE_FORMAT_ERROR", "keep", TRUE)
        ELSE Begin(u, report, "keep", TRUE)
     /\ UNCHANGED <<users, messages>>

handle_years(u, text) ==
  /\ Called(u, text, "handle_years")
  /\ \E ok \in BOOLEAN : Report(u, "WEEKS_REPORT", ok)

handle_hours(u, text) ==
  /\ Called(u, text, "handle_hours")
  /\ \E ok \in BOOLEAN : Report(u, "HOURS_REPORT", ok)

handle_progress(u, text) ==
  /\ Called(u, text, "handle_progress")
  /\ \E ok \in BOOLEAN : Report(u, "PROGRESS_REPORT", ok)

\* handle_motivation writing the message to the log
handle_motivation_logged(u, text) ==
  /\ Called(u, text, "handle_motivation")
  /\ Begin(u, "MOTIVATION", "keep", TRUE)
  /\ messages' = log_user_message(messages, u, text, TRUE)
  /\ UNCHANGED users

handle_motivation(u, text) ==
  /\ Called(u, text, "handle_motivation")
  /\ Begin(u, "MOTIVATION", "keep", TRUE)
  /\ UNCHANGED <<users, messages>>

handle_change_date(u, text) ==
  /\ Called(u, text, "handle_change_date")
  /\ Begin(u, "ASK_NEW_DATE", WAITING_NEW_BIRTH_DATE, TRUE)
  /\ UNCHANGED <<users, messages>>

\* @dp.message(UserState.WAITING_NEW_BIRTH_DATE)
process_new_birth_date(u, text) ==
  /\ Called(u, text, "process_new_birth_date")
  /\ \E ok \in BOOLEAN : AcceptDate(u, text, "DATE_UPDATED", ok)

\* @dp.message(): no try block; the message is logged, then answered
fallback_handler(u, text) ==
  /\ Called(u, text, "fallback_handler")
  /\ Len(messages) < MaxLog
  /\ \E ok \in BOOLEAN : messages' = log_user_message(messages, u, text, ok)
  /\ Begin(u, "FALLBACK_PHRASE", "keep", FALSE)
  /\ UNCHANGED users

\* @dp.message(Command("superstats")): the access check stands before the
\* try block; the two aggregate reads are made in the handler itself
admin_stats_handler(u, text) ==
  /\ Called(u, text, "admin_stats_handler")
  /\ \E ok_count \in BOOLEAN, ok_top \in BOOLEAN :
     IF ADMIN_ID = 0 \/ u # ADMIN_ID
     THEN Begin(u, "ACCESS_DENIED", "keep", FALSE)
     ELSE IF ok_count /\ ok_top
     THEN Begin(u, "STATS", "keep", TRUE)
     ELSE Begin(u, "STATS_FAILED", "keep", FALSE)
  /\ UNCHANGED <<users, messages>>

-----------------------------------------------------------------------------
(* The pending send of a handler returns or raises *)

\* what the except clause answers: admin_stats_handler's its own text, the
\* other handlers' BotTexts.INTERNAL_ERROR
ErrorReply(reply) == IF reply = "STATS" THEN "STATS_FAILED" ELSE "INTERNAL_ERROR"

\* answer_ok of a handler that leaves out its FSM write
answer_ok_nowrite(t) ==
  /\ tasks' = tasks (-) SetToBag({t})
  /\ UNCHANGED <<users, messages, fsm, job, call>>

\* message.answer returns: the handler makes its FSM write, if any, and ends
answer_ok(t) ==
  /\ fsm' = IF t.after = "keep" THEN fsm
            ELSE [fsm EXCEPT ![t.uid] = IF t.after = "clear" THEN NoState ELSE t.after]
  /\ tasks' = tasks (-) SetToBag({t})
  /\ UNCHANGED <<users, messages, job, call>>

\* message.answer raises: inside the try block the except clause sends the
\* error reply; outside it (the error reply itself, the fallback, the
\* access-denied reply) the error leaves the handler
answer_fail(t) ==
  /\ tasks' = IF t.guarded
              THEN (tasks (-) SetToBag({t}))
                   (+) SetToBag({Task(t.uid, ErrorReply(t.reply), "keep", FALSE)})
              ELSE tasks (-) SetToBag({t})
  /\ UNCHANGED <<users, messages, fsm, job, call>>

-----------------------------------------------------------------------------
(* The weekly job.  weekly_updates_task reads the table once and awaits    *)
(* send_weekly_update for each row in turn; send_weekly_update catches     *)
(* whatever its body raises.  job.attempts lists the calls of              *)
(* bot.send_message that have ended, as <<user_id, delivered>>.            *)

\* the first row at or after i whose date strptime accepts (for the others
\* send_weekly_update raises and returns before any send); past the end if none
RECURSIVE NextSend(_, _)
NextSend(snapshot, i) ==
  IF i > Len(snapshot) THEN i
  ELSE IF validate_date(snapshot[i][2]) # NoDate THEN i
  ELSE NextSend(snapshot, i + 1)

\* the cron trigger fires: the job reads the users and starts the first send
weekly_updates_task(ok) ==
  /\ job.pc = "idle"
  /\ InFlight < MaxInFlight
  /\ LET snap == get_all_users(users, ok)
         n == NextSend(snap, 1)
     IN job' = IF n > Len(snap) THEN IdleJob
               ELSE [pc |-> "sending", snapshot |-> snap, i |-> n, attempts |-> <<>>]
  /\ UNCHANGED <<users, messages, fsm, tasks, call>>

\* send_weekly_update letting the error of a send out, which ends the loop
send_weekly_update_abort(delivered) ==
  /\ job.pc = "sending"
  /\ LET n == NextSend(job.snapshot, job.i + 1)
     IN job' = IF n > Len(job.snapshot) \/ ~delivered THEN IdleJob
               ELSE [job EXCEPT !.attempts = Append(@, <<job.snapshot[job.i][1], delivered>>),
                                !.i = n]
  /\ UNCHANGED <<users, messages, fsm, tasks, call>>

\* send_weekly_update with the loop reading the table again before each row
send_weekly_update_rereading(delivered) ==
  /\ job.pc = "sending"
  /\ LET snap == get_all_users(users, TRUE)
         n == NextSend(snap, job.i + 1)
     IN job' = IF n > Len(snap) THEN IdleJob
               ELSE [job EXCEPT !.attempts = Append(@, <<job.snapshot[job.i][1], delivered>>),
                                !.snapshot = snap, !.i = n]
  /\ UNCHANGED <<users, messages, fsm, tasks, call>>

\* the pending bot.send_message returns or raises; either way the loop goes
\* on to the next row, and the run ends after the last one
send_weekly_update(delivered) ==
  /\ job.pc = "sending"
  /\ LET n == NextSend(job.snapshot, job.i + 1)
     IN job' = IF n > Len(job.snapshot) THEN IdleJob
               ELSE [job EXCEPT !.attempts = Append(@, <<job.snapshot[job.i][1], delivered>>),
                                !.i = n]
  /\ UNCHANGED <<users, messages, fsm, tasks, call>>

-----------------------------------------------------------------------------
(* The process stops and starts again: the handler runs and the job under  *)
(* way end with it, the new Dispatcher gets an empty MemoryStorage, and    *)
(* create_database (CREATE TABLE IF NOT EXISTS) finds the tables of        *)
(* users.db as they were.                                                  *)

\* a restart with a storage for the FSM that outlives the process
restart_keeping_fsm ==
  /\ tasks' = EmptyBag
  /\ job' = IdleJob
  /\ UNCHANGED <<users, messages, fsm, call>>

\* a restart that starts from an empty users table
restart_dropping_users ==
  /\ fsm' = [u \in Users |-> NoState]
  /\ tasks' = EmptyBag
  /\ job' = IdleJob
  /\ users' = {}
  /\ UNCHANGED <<messages, call>>

restart ==
  /\ fsm' = [u \in Users |-> NoState]
  /\ tasks' = EmptyBag
  /\ job' = IdleJob
  /\ UNCHANGED <<users, messages, call>>

-----------------------------------------------------------------------------
(* The running bot *)

Next ==
  \/ \E u \in Users, text \in Texts : start_handler(u, text)
  \/ \E u \in Users, text \in Texts : process_birth_date(u, text)
  \/ \E u \in Users, text \in Texts : handle_years(u, text)
  \/ \E u \in Users, text \in Texts : handle_hours(u, text)
  \/ \E u \in Users, text \in Texts : handle_progress(u, text)
  \/ \E u \in Users, text \in Texts : handle_motivation(u, text)
  \/ \E u \in Users, text \in Texts : handle_change_date(u, text)
  \/ \E u \in Users, text \in Texts : process_new_birth_date(u, text)
  \/ \E u \in Users, text \in Texts : fallback_handler(u, text)
  \/ \E t \in BagToSet(tasks) : answer_ok(t)
  \/ \E t \in BagToSet(tasks) : answer_fail(t)
  \/ \E ok \in BOOLEAN : weekly_updates_task(ok)
  \/ \E delivered \in BOOLEAN : send_weekly_update(delivered)
  \/ restart

Spec == Init /\ [][Next]_vars

-----------------------------------------------------------------------------
(* The storage functions called one at a time, as a test of the storage    *)
(* layer calls them.  call holds the last call and what came back.         *)

\* the strings given to save_user, which takes any string
DateStrings == {DATE_15_05_1990, strip(DATE_PADDED), NOT_A_DATE}
\* the texts given to log_user_message
LogTexts == {NOT_A_DATE, None}

Returned(op, user_id, arg, ok, raised, value) ==
  [op |-> op, user_id |-> user_id, arg |-> arg, ok |-> ok, raised |-> raised,
   value |-> value]

call_save_user(u, birth_date, ok) ==
  /\ users' = save_user(users, u, birth_date, ok)
  /\ call' = Returned("save_user", u, birth_date, ok, FALSE, None)
  /\ UNCHANGED <<messages, fsm, tasks, job>>

call_get_user(u, ok) ==
  /\ call' = Returned("get_user", u, None, ok, FALSE, get_user(users, u, ok))
  /\ UNCHANGED <<users, messages, fsm, tasks, job>>

call_get_all_users(ok) ==
  /\ call' = Returned("get_all_users", 0, None, ok, FALSE, get_all_users(users, ok))
  /\ UNCHANGED <<users, messages, fsm, tasks, job>>

call_log_user_message(u, text, ok) ==
  /\ Len(messages) < MaxLog
  /\ messages' = log_user_message(messages, u, text, ok)
  /\ call' = Returned("log_user_message", u, text, ok, FALSE, None)
  /\ UNCHANGED <<users, fsm, tasks, job>>

read_total_messages(ok) ==
  /\ LET r == total_messages(messages, ok)
     IN call' = Returned("total_messages", 0, None, ok, r.raised, r.value)
  /\ UNCHANGED <<users, messages, fsm, tasks, job>>

read_top_users(ok) ==
  /\ LET r == top_users(messages, ok)
     IN call' = Returned("top_users", 0, None, ok, r.raised, r.value)
  /\ UNCHANGED <<users, messages, fsm, tasks, job>>

call_database_save_user(u, birth_date, ok) ==
  /\ LET r == database_save_user(users, u, birth_date, ok)
     IN /\ users' = r.table
        /\ call' = Returned("database.save_user", u, birth_date, ok, r.raised, None)
  /\ UNCHANGED <<messages, fsm, tasks, job>>

call_database_get_user(u, ok) ==
  /\ LET r == database_get_user(users, u, ok)
     IN call' = Returned("database.get_user", u, None, ok, r.raised, r.value)
  /\ UNCHANGED <<users, messages, fsm, tasks, job>>

NextStore ==
  \/ \E u \in Users, birth_date \in DateStrings, ok \in BOOLEAN :
       call_save_user(u, birth_date, ok)
  \/ \E u \in Users, ok \in BOOLEAN : call_get_user(u, ok)
  \/ \E ok \in BOOLEAN : call_get_all_users(ok)
  \/ \E u \in Users, text \in LogTexts, ok \in BOOLEAN :
       call_log_user_message(u, text, ok)
  \/ \E ok \in BOOLEAN : read_total_messages(ok)
  \/ \E ok \in BOOLEAN : read_top_users(ok)
  \/ \E u \in Users, birth_date \in DateStrings, ok \in BOOLEAN :
       call_database_save_user(u, birth_date, ok)
  \/ \E u \in Users, ok \in BOOLEAN : call_database_get_user(u, ok)

SpecStore == Init /\ [][NextStore]_vars

-----------------------------------------------------------------------------
(* create_progress_bar called on its own.  percentage is the quotient      *)
(* weeksLived / targetWeeks of two integers, kept as the pair; int()       *)
(* truncates toward zero, and a string times a negative count is empty.    *)

FILLED == "filled"
EMPTY == "empty"

\* glyph * n
Times(glyph, n) == IF n <= 0 THEN <<>> ELSE [i \in 1..n |-> glyph]

\* int(a / b) for b > 0
int(a, b) == IF a >= 0 THEN a \div b ELSE -((-a) \div b)

\* create_progress_bar(percentage, length=10)
create_progress_bar(percentage, length) ==
  LET filled == Times(FILLED, int(percentage[1] * length, percentage[2]))
      empty == Times(EMPTY, length - Len(filled))
  IN filled \o empty

targetWeeks == TARGET_YEARS_DISPLAY * WEEKS_IN_YEAR

InitBar ==
  /\ users = {} /\ messages = <<>> /\ fsm = [u \in Users |-> NoState]
  /\ tasks = EmptyBag /\ job = IdleJob
  /\ \E weeksLived \in (0 - MaxWeeksAhead)..MaxWeeks :
       call = [op |-> "weeksLived", weeksLived |-> weeksLived]

\* progress = weeksLived / targetWeeks; create_progress_bar(progress)
call_create_progress_bar ==
  /\ call.op = "weeksLived"
  /\ call' = [op |-> "create_progress_bar", weeksLived |-> call.weeksLived,
              bar |-> create_progress_bar(<<call.weeksLived, targetWeeks>>, 10)]
  /\ UNCHANGED <<users, messages, fsm, tasks, job>>

NextBar == call_create_progress_bar

SpecBar == InitBar /\ [][NextBar]_vars

-----------------------------------------------------------------------------
(* The weeks lived, computed where the code computes them: in              *)
(* start_handler, handle_years, handle_progress and send_weekly_update as  *)
(* (datetime.date.today() - birth_date).days // 7.  call holds the clock:  *)
(* the birth date, today, and the days that have passed from the one to    *)
(* the other, counted one by one as the calendar moves.                    *)

\* days of the years before year y (datetime._days_before_year)
DaysBeforeYear(y) ==
  (y - 1) * 365 + ((y - 1) \div 4) - ((y - 1) \div 100) + ((y - 1) \div 400)

\* days of year y before month m (datetime._days_before_month)
RECURSIVE DaysBeforeMonth(_, _)
DaysBeforeMonth(y, m) ==
  IF m = 1 THEN 0 ELSE DaysBeforeMonth(y, m - 1) + DaysInMonth(y, m - 1)

\* date.toordinal()
toordinal(d) == DaysBeforeYear(d[1]) + DaysBeforeMonth(d[1], d[2]) + d[3]

\* (today - birth_date).days
days(today, birth_date) == toordinal(today) - toordinal(birth_date)

\* a // b of Python for b > 0: the floor
FloorDiv(a, b) == IF a >= 0 THEN a \div b ELSE -(((-a) + b - 1) \div b)

\* weeksLived with int(days / 7), which rounds toward zero
weeksLived_int(today, birth_date) ==
  LET n == days(today, birth_date)
  IN IF n >= 0 THEN n \div 7 ELSE -((-n) \div 7)

\* weeksLived = (datetime.date.today() - birth_date).days // 7
weeksLived(today, birth_date) == FloorDiv(days(today, birth_date), 7)

\* weeksRemaining = max(0, targetWeeks - weeksLived)
weeksRemaining(lived) == IF targetWeeks - lived > 0 THEN targetWeeks - lived ELSE 0

\* the day after d in the calendar
NextDay(d) ==
  IF d[3] < DaysInMonth(d[1], d[2]) THEN <<d[1], d[2], d[3] + 1>>
  ELSE IF d[2] < 12 THEN <<d[1], d[2] + 1, 1>>
  ELSE <<d[1] + 1, 1, 1>>

RECURSIVE DaysLater(_, _)
DaysLater(d, n) == IF n = 0 THEN d ELSE DaysLater(NextDay(d), n - 1)

\* the day the clock starts at
FirstDay == <<1896, 2, 25>>
\* the steps of the clock
Steps == {"day", "week", "year"}

\* the date one step after d; a year after 29 February there is no such date
Later(d, step) ==
  IF step = "day" THEN NextDay(d)
  ELSE IF step = "week" THEN DaysLater(d, 7)
  ELSE <<d[1] + 1, d[2], d[3]>>

\* the days of the step from d: a year has 366 when a 29 February falls in it
DaysOf(d, step) ==
  IF step = "day" THEN 1
  ELSE IF step = "week" THEN 7
  ELSE IF (d[2] <= 2 /\ IsLeap(d[1])) \/ (d[2] > 2 /\ IsLeap(d[1] + 1)) THEN 366
  ELSE 365

Clock(op, birth_date, today, elapsed, lived, remaining) ==
  [op |-> op, birth_date |-> birth_date, today |-> today, elapsed |-> elapsed,
   weeksLived |-> lived, weeksRemaining |-> remaining]

InitWeeks ==
  /\ users = {} /\ messages = <<>> /\ fsm = [u \in Users |-> NoState]
  /\ tasks = EmptyBag /\ job = IdleJob
  /\ call = Clock("clock", FirstDay, FirstDay, 0, 0, 0)

\* the birth date entered lies one more day ahead of today
BirthAhead ==
  /\ call.today = FirstDay
  /\ call.elapsed > 0 - MaxDaysAhead
  /\ call' = Clock("clock", NextDay(call.birth_date), call.today, call.elapsed - 1, 0, 0)
  /\ UNCHANGED <<users, messages, fsm, tasks, job>>

\* time passes
Advance(step) ==
  /\ call.birth_date = FirstDay
  /\ step = "year" => ~(call.today[2] = 2 /\ call.today[3] = 29)
  /\ call.elapsed + DaysOf(call.today, step) <= MaxDays
  /\ call' = Clock("clock", call.birth_date, Later(call.today, step),
                   call.elapsed + DaysOf(call.today, step), 0, 0)
  /\ UNCHANGED <<users, messages, fsm, tasks, job>>

\* a place of the code works the weeks out; remaining is what it shows of
\* the weeks left, None where it shows none
Computes(site, shows_remaining) ==
  /\ LET lived == weeksLived(call.today, call.birth_date)
     IN call' = Clock(site, call.birth_date, call.today, call.elapsed, lived,
                      IF shows_remaining THEN weeksRemaining(lived) ELSE None)
  /\ UNCHANGED <<users, messages, fsm, tasks, job>>

start_handler_weeks == Computes("start_handler", FALSE)
handle_years_weeks == Computes("handle_years", TRUE)
handle_progress_weeks == Computes("handle_progress", TRUE)
send_weekly_update_weeks == Computes("send_weekly_update", FALSE)

NextWeeks ==
  \/ BirthAhead
  \/ \E step \in Steps : Advance(step)
  \/ start_handler_weeks
  \/ handle_years_weeks
  \/ handle_progress_weeks
  \/ send_weekly_update_weeks

SpecWeeks == InitWeeks /\ [][NextWeeks]_vars

-----------------------------------------------------------------------------
(* validate_date called on its own, on strings put together from a day, a  *)
(* month and a year part, two separators and blanks or other text around   *)
(* them.                                                                   *)

DayParts == {<<"0", "1">>, <<"1">>, <<" ", "1">>, <<"2", "9">>, <<"3", "0">>,
             <<"3", "1">>, <<"0", "0">>, <<"3", "2">>, <<>>}
MonthParts == {<<"0", "2">>, <<"2">>, <<"0", "4">>, <<"1", "2">>, <<"1", "3">>,
               <<"0", "0">>, <<" ", "2">>}
YearParts == {<<"1", "9", "0", "0">>, <<"2", "0", "0", "0">>, <<"1", "9", "9", "1">>,
              <<"0", "0", "0", "0">>, <<"1", "9", "9">>, <<"1", "9", "9", "0", "0">>}
Separators == {<<".">>, <<"-">>, <<>>}
Around == {<<>>, <<" ">>, <<"x">>}

DateInputs ==
  {pre \o d \o sep \o m \o sep \o y \o post :
     pre \in Around, d \in DayParts, sep \in Separators, m \in MonthParts,
     y \in YearParts, post \in Around}

InitDates ==
  /\ users = {} /\ messages = <<>> /\ fsm = [u \in Users |-> NoState]
  /\ tasks = EmptyBag /\ job = IdleJob
  /\ \E date_str \in DateInputs : call = [op |-> "date_str", date_str |-> date_str]

call_validate_date ==
  /\ call.op = "date_str"
  /\ call' = [op |-> "validate_date", date_str |-> call.date_str,
              value |-> validate_date(call.date_str)]
  /\ UNCHANGED <<users, messages, fsm, tasks, job>>

NextDates == call_validate_date

SpecDates == InitDates /\ [][NextDates]_vars

-----------------------------------------------------------------------------
(* The report buttons over what users.db may hold.  The file outlives the  *)
(* process and create_database keeps the rows in it, so a row may hold a   *)
(* string validate_date rejects; the handlers have a branch for it.  A     *)
(* sender is in any state, with no row, a row with a date, or such a row.  *)

StoredDates == {DATE_15_05_1990, NOT_A_DATE}
Tables ==
  {tbl \in SUBSET (Users \X StoredDates) : \A u \in Users : Cardinality(RowsOf(tbl, u)) <= 1}

InitReports ==
  /\ users \in Tables
  /\ messages \in {<<>>} \cup {<<<<u, NOT_A_DATE>>>> : u \in Users}
  /\ fsm \in [Users -> States]
  /\ tasks = EmptyBag
  /\ job = IdleJob
  /\ call = NoCall

NextReports ==
  \/ \E u \in Users : handle_years(u, BUTTONS.years)
  \/ \E u \in Users : handle_hours(u, BUTTONS.hours)
  \/ \E u \in Users : handle_progress(u, BUTTONS.progress)
  \/ \E u \in Users : handle_motivation(u, BUTTONS.motivation)
  \/ \E t \in BagToSet(tasks) : answer_ok(t)
  \/ \E t \in BagToSet(tasks) : answer_fail(t)

SpecReports == InitReports /\ [][NextReports]_vars

-----------------------------------------------------------------------------
(* The start of the process: the module-level configuration checks, then   *)
(* on_startup, then admin_stats_handler called for a sender.  call holds   *)
(* the environment and what has come of it.  An environment variable is a  *)
(* string of characters, or None when it is not set.                       *)

\* a number is held as <<n>>; no value, of a failed int() or of None, as <<>>
ValueError == <<>>

\* the digits and underscores of an int literal: digits, single underscores
\* between them
RECURSIVE IntBody(_, _)
IntBody(s, acc) ==
  IF s = <<>> THEN <<acc>>
  ELSE IF Head(s) \in Digit THEN IntBody(Tail(s), 10 * acc + DigitVal(Head(s)))
  ELSE IF Head(s) = "_" /\ Len(s) > 1 /\ s[2] \in Digit THEN IntBody(Tail(s), acc)
  ELSE ValueError

\* int(s) of a string: blanks around, a sign, then the literal
int_str(s) ==
  LET t == strip(s)
      signed == t # <<>> /\ Head(t) \in {"+", "-"}
      body == IF signed THEN Tail(t) ELSE t
      n == IF body = <<>> \/ Head(body) \notin Digit THEN ValueError ELSE IntBody(body, 0)
  IN IF n = ValueError THEN ValueError
     ELSE IF signed /\ Head(t) = "-" THEN <<0 - n[1]>> ELSE n

\* `not x` for a string or None
Unset(x) == x = None \/ x = <<>>

\* `not ADMIN_ID or message.from_user.id != ADMIN_ID`
denied(admin_id, user_id) == admin_id = <<>> \/ admin_id = <<0>> \/ <<user_id>> # admin_id

TokenValues == {None, <<>>, <<"t">>}
UrlValues == {None, <<>>, <<"u">>}
AdminValues == {None, <<>>, <<"1">>, <<"2">>, <<"0">>, <<"4", "2">>, <<"a">>, <<"1", "a">>,
                <<"1", ".", "5">>, <<" ", "1">>, <<"-", "1">>, <<"1", "_", "0">>, <<"_", "1">>}

Process(op, token, url, admin_env, admin_id, bot, notified, sender, reply) ==
  [op |-> op, TOKEN |-> token, WEBHOOK_URL |-> url, admin_env |-> admin_env,
   admin_id |-> admin_id, bot |-> bot, notified |-> notified, sender |-> sender,
   reply |-> reply]

InitStartup ==
  /\ users = {} /\ messages = <<>> /\ fsm = [u \in Users |-> NoState]
  /\ tasks = EmptyBag /\ job = IdleJob
  /\ \E token \in TokenValues, url \in UrlValues, admin \in AdminValues :
       call = Process("env", token, url, admin, <<>>, FALSE, FALSE, 0, None)

\* the configuration checks with the one of ADMIN_ID left out
module_config_unchecked ==
  /\ call.op = "env"
  /\ call' = IF Unset(call.TOKEN) \/ Unset(call.WEBHOOK_URL)
             THEN [call EXCEPT !.op = "exit"]
             ELSE [call EXCEPT !.op = "configured", !.bot = TRUE,
                               !.admin_id = IF Unset(call.admin_env) THEN <<>>
                                            ELSE int_str(call.admin_env)]
  /\ UNCHANGED <<users, messages, fsm, tasks, job>>

\* the module-level checks, up to bot = Bot(...)
module_config ==
  /\ call.op = "env"
  /\ call' = IF Unset(call.TOKEN) THEN [call EXCEPT !.op = "exit"]
             ELSE IF Unset(call.WEBHOOK_URL) THEN [call EXCEPT !.op = "exit"]
             ELSE IF Unset(call.admin_env)
             THEN [call EXCEPT !.op = "configured", !.bot = TRUE]
             ELSE IF int_str(call.admin_env) = ValueError THEN [call EXCEPT !.op = "exit"]
             ELSE [call EXCEPT !.op = "configured", !.bot = TRUE,
                               !.admin_id = int_str(call.admin_env)]
  /\ UNCHANGED <<users, messages, fsm, tasks, job>>

\* on_startup: when set_webhook goes through, the admin is told if there is one
on_startup(webhook_ok) ==
  /\ call.op = "configured"
  /\ call' = [call EXCEPT !.op = "started",
                          !.notified = webhook_ok /\ call.admin_id \notin {<<>>, <<0>>}]
  /\ UNCHANGED <<users, messages, fsm, tasks, job>>

\* admin_stats_handler called for a sender: its access check
call_admin_stats_handler(u) ==
  /\ call.op \in {"started", "admin_stats_handler"}
  /\ call' = [call EXCEPT !.op = "admin_stats_handler", !.sender = u,
                          !.reply = IF denied(call.admin_id, u) THEN "ACCESS_DENIED"
                                    ELSE "STATS"]
  /\ UNCHANGED <<users, messages, fsm, tasks, job>>

NextStartup ==
  \/ module_config
  \/ \E webhook_ok \in BOOLEAN : on_startup(webhook_ok)
  \/ \E u \in Users : call_admin_stats_handler(u)

SpecStartup == InitStartup /\ [][NextStartup]_vars

-----------------------------------------------------------------------------
(* Steps, named by what they handle *)

HandlerNames == {"start_handler", "process_birth_date", "handle_years", "handle_hours",
                 "handle_progress", "handle_motivation", "handle_change_date",
                 "process_new_birth_date", "fallback_handler"}

\* this step is handler h called for the update (u, text)
Handles(h, u, text) ==
  \/ h = "start_handler" /\ start_handler(u, text)
  \/ h = "process_birth_date" /\ process_birth_date(u, text)
  \/ h = "handle_years" /\ handle_years(u, text)
  \/ h = "handle_hours" /\ handle_hours(u, text)
  \/ h = "handle_progress" /\ handle_progress(u, text)
  \/ h = "handle_motivation" /\ handle_motivation(u, text)
  \/ h = "handle_change_date" /\ handle_change_date(u, text)
  \/ h = "process_new_birth_date" /\ process_new_birth_date(u, text)
  \/ h = "fallback_handler" /\ fallback_handler(u, text)

\* this step starts a send to u
Begun(u) ==
  \E t \in BagToSet(tasks') : t.uid = u /\ CopiesIn(t, tasks') > CopiesIn(t, tasks)

\* this step is the dispatch of the update (u, text); every handler starts a
\* send, which is looked for first
Dispatched(u, text) == Begun(u) /\ Handles(Handler[fsm[u]][text], u, text)

\* this step starts the send of reply to u
Replies(u, reply) ==
  \E t \in BagToSet(tasks') :
    /\ t.uid = u /\ t.reply = reply
    /\ CopiesIn(t, tasks') = CopiesIn(t, tasks) + 1

\* this step is the return of the send of reply to u
Delivered(u, reply) ==
  \E t \in BagToSet(tasks) : t.uid = u /\ t.reply = reply /\ answer_ok(t)

\* a run of u is suspended at the send of reply
Pending(u, reply) == \E t \in BagToSet(tasks) : t.uid = u /\ t.reply = reply

-----------------------------------------------------------------------------
(* C2: every birth_date in the users table is a string validate_date      *)
(* accepts, in every reachable state.                                      *)
C2_StoredDatesValid == \A r \in users : validate_date(r[2]) # NoDate

\* a date sent with blanks around it has been saved
C2_Witness == \E u \in Users : <<u, strip(DATE_PADDED)>> \in users

-----------------------------------------------------------------------------
-----------------------------------------------------------------------------
\* the handler the stated precedence gives: a command handler first, then the
\* handler of the sender's state, then a button handler, then the fallback
Precedence(raw_state, text) ==
  IF Command(text, {"/start", "/help"}) THEN "start_handler"
  ELSE IF Command(text, {"/superstats"}) THEN "admin_stats_handler"
  ELSE IF raw_state = WAITING_BIRTH_DATE THEN "process_birth_date"
  ELSE IF raw_state = WAITING_NEW_BIRTH_DATE THEN "process_new_birth_date"
  ELSE IF text = BUTTONS.years THEN "handle_years"
  ELSE IF text = BUTTONS.hours THEN "handle_hours"
  ELSE IF text = BUTTONS.progress THEN "handle_progress"
  ELSE IF text = BUTTONS.motivation THEN "handle_motivation"
  ELSE IF text = BUTTONS.change_date THEN "handle_change_date"
  ELSE "fallback_handler"

(* C3: every update is handled by the handler the precedence gives.        *)
C3_DispatchPrecedence ==
  [][\A u \in Users, text \in Texts, h \in HandlerNames :
       Handles(h, u, text) => h = Precedence(fsm[u], text)]_vars

(* C4: /superstats from a sender who is not the admin is answered with the *)
(* access-denied message and leaves both tables and the states as they     *)
(* were.                                                                   *)
C4_NonAdminDenied ==
  [][\A u \in Users, text \in Texts :
       (Command(text, {"/superstats"}) /\ u # ADMIN_ID /\ Dispatched(u, text))
         => /\ Replies(u, "ACCESS_DENIED")
            /\ UNCHANGED <<users, messages, fsm>>]_vars

\* the state a suspended handler writes once its send returns
Written(after) == IF after = "clear" THEN NoState ELSE after

(* C5: an update is routed by the state that every earlier update of its   *)
(* sender has written: no run of the sender is suspended between the       *)
(* dispatcher's read of the state and a write that would route otherwise.  *)
C5_RoutedByWrittenState ==
  [][\A u \in Users, text \in Texts, h \in HandlerNames :
       Handles(h, u, text)
         => \A t \in BagToSet(tasks) :
              (t.uid = u /\ t.after # "keep") => h = Handler[Written(t.after)][text]]_vars

(* C9: when the reply of a handler raises, the handler catches the error   *)
(* and sends the internal-error message.                                   *)
C9_ErrorsCaught ==
  [][\A t \in BagToSet(tasks) :
       (answer_fail(t) /\ t.reply \notin {"INTERNAL_ERROR", "STATS_FAILED"})
         => Replies(t.uid, "INTERNAL_ERROR")]_vars

-----------------------------------------------------------------------------
\* while the job sends to row i, the rows before i have had their attempt
AttemptsSoFar ==
  job.pc = "sending" =>
    /\ job.i \in 1..Len(job.snapshot)
    /\ Len(job.attempts) = job.i - 1
    /\ \A k \in 1..(job.i - 1) : job.attempts[k][1] = job.snapshot[k][1]

(* C6: a run of weekly_updates_task that has read the users table attempts *)
(* a send for every stored user, in order; whether a send is delivered or  *)
(* raises, the next row is attempted, and the run ends only with the       *)
(* attempt for the last row.                                               *)
C6_BroadcastBestEffort ==
  [][/\ weekly_updates_task(TRUE)
          => IF users = {} THEN job' = IdleJob
             ELSE /\ job'.pc = "sending" /\ job'.i = 1
                  /\ Len(job'.snapshot) = Cardinality(users)
                  /\ {job'.snapshot[k] : k \in 1..Len(job'.snapshot)} = users
     /\ \A delivered \in BOOLEAN :
          send_weekly_update(delivered)
            => IF job.i = Len(job.snapshot) THEN job' = IdleJob
               ELSE /\ job'.pc = "sending" /\ job'.i = job.i + 1
                    /\ job'.snapshot = job.snapshot
                    /\ job'.attempts =
                         Append(job.attempts, <<job.snapshot[job.i][1], delivered>>)
     /\ AttemptsSoFar'
    ]_vars

\* the send to the first of two stored users has raised and the send to the
\* second is under way
C6_Witness ==
  /\ job.pc = "sending" /\ Len(job.snapshot) = 2 /\ job.i = 2
  /\ job.attempts = <<<<job.snapshot[1][1], FALSE>>>>

-----------------------------------------------------------------------------
\* this step is a call of save_user of bot.py that went through
Saved(u, birth_date) == call_save_user(u, birth_date, TRUE)

Defaults ==
  /\ call.op \in {"save_user", "get_user", "get_all_users", "log_user_message"}
       => /\ ~call.raised
          /\ (call.op = "get_user" /\ ~call.ok) => call.value = None
          /\ (call.op = "get_all_users" /\ ~call.ok) => call.value = <<>>
          /\ (call.op = "get_user" /\ call.ok /\ RowsOf(users, call.user_id) # {})
               => <<call.user_id, call.value>> \in users
  /\ call.op \in {"total_messages", "top_users", "database.get_user"}
       => (call.raised <=> ~call.ok)
  /\ call.op = "database.save_user"
       => (call.raised <=> (~call.ok \/ strptime(call.arg) = NoDate))

C10_BarWithinLength ==
  call.op = "create_progress_bar" =>
    LET filled == Cardinality({i \in 1..Len(call.bar) : call.bar[i] = FILLED})
        empty == Cardinality({i \in 1..Len(call.bar) : call.bar[i] = EMPTY})
    IN /\ filled <= 10
       /\ (call.weeksLived >= 0 /\ call.weeksLived <= targetWeeks)
            => /\ filled = (10 * call.weeksLived) \div targetWeeks
               /\ empty = 10 - filled

-----------------------------------------------------------------------------
(* C11: wherever the code works out the weeks lived (the /start summary,   *)
(* the weeks report, the progress report, the weekly broadcast) the result *)
(* is the floor of the days from the birth date to today divided by 7: 0   *)
(* on the birth date, 1 seven days later; and the weeks left that the      *)
(* weeks report and the progress report show are max(0, 4680 - weeksLived),*)
(* never negative.                                                         *)
C11_WeeksLived ==
  call.op \in {"start_handler", "handle_years", "handle_progress", "send_weekly_update"}
    => /\ 7 * call.weeksLived <= call.elapsed
       /\ call.elapsed < 7 * call.weeksLived + 7
       /\ call.elapsed = 0 => call.weeksLived = 0
       /\ call.elapsed = 7 => call.weeksLived = 1
       /\ call.op \in {"handle_years", "handle_progress"}
            => /\ call.weeksRemaining >= 0
               /\ call.weeksRemaining + call.weeksLived >= 4680
               /\ call.weeksLived <= 4680 => call.weeksRemaining = 4680 - call.weeksLived
               /\ call.weeksLived > 4680 => call.weeksRemaining = 0

\* the weeks report for someone past the 4680 weeks shows 0 weeks left
C11_Witness ==
  /\ call.op = "handle_years" /\ call.weeksLived > 4680 /\ call.weeksRemaining = 0
  /\ call.elapsed > 7 * 4680

-----------------------------------------------------------------------------
\* s is two digits, a dot, two digits, a dot and four digits
IsDDMMYYYY(s) ==
  /\ Len(s) = 10
  /\ s[3] = "." /\ s[6] = "."
  /\ \A i \in {1, 2, 4, 5, 7, 8, 9, 10} : s[i] \in Digit

\* the date such a string names, as <<year, month, day>>
Named(s) ==
  <<1000 * DigitVal(s[7]) + 100 * DigitVal(s[8]) + 10 * DigitVal(s[9]) + DigitVal(s[10]),
    10 * DigitVal(s[4]) + DigitVal(s[5]),
    10 * DigitVal(s[1]) + DigitVal(s[2])>>

\* the calendar has the date
Exists(date) ==
  /\ date[1] >= 1
  /\ date[2] \in 1..12
  /\ date[3] >= 1 /\ date[3] <= DaysInMonth(date[1], date[2])

(* C12: validate_date returns a date exactly for the strings DD.MM.YYYY    *)
(* (two digits, two digits, four digits) that name a date of the calendar, *)
(* and then the date named; for every other string it returns None.        *)
C12_StrictDate ==
  call.op = "validate_date" =>
    IF IsDDMMYYYY(call.date_str) /\ Exists(Named(call.date_str))
    THEN call.value = Named(call.date_str)
    ELSE call.value = NoDate

-----------------------------------------------------------------------------
(* C13: a restart puts every user in state None and leaves the users table *)
(* and the message log as they were.  From then on a valid date from a     *)
(* user in state None is answered by the fallback and saves nothing: a row *)
(* of a user changes only in a step taken while the user is in an awaiting *)
(* state, and a user leaves state None only when the reply to /start or to *)
(* the change-date button has been sent.                                   *)
C13_Restart ==
  [][/\ restart => /\ \A u \in Users : fsm'[u] = NoState
                   /\ users' = users /\ messages' = messages
     /\ \A u \in Users :
          /\ RowsOf(users', u) # RowsOf(users, u)
               => fsm[u] \in {WAITING_BIRTH_DATE, WAITING_NEW_BIRTH_DATE}
          /\ (fsm[u] = NoState /\ fsm'[u] # NoState)
               => \/ Delivered(u, "WELCOME_NEW")
                  \/ Delivered(u, "DATE_FORMAT_ERROR")
                  \/ Delivered(u, "ASK_NEW_DATE")
          /\ \A text \in Texts :
               ( /\ fsm[u] = NoState
                 /\ Dispatched(u, text)
                 /\ text # None
                 /\ validate_date(strip(text)) # NoDate )
                 => Replies(u, "FALLBACK_PHRASE") /\ users' = users /\ fsm' = fsm
    ]_vars

\* a user without a row and in state None has sent a valid date: it is in
\* the message log, the fallback phrase is on the way, and nothing is saved
C13_Witness ==
  \E u \in Users :
    /\ fsm[u] = NoState /\ RowsOf(users, u) = {}
    /\ messages = <<<<u, DATE_15_05_1990>>>>
    /\ Pending(u, "FALLBACK_PHRASE")
    /\ BagCardinality(tasks) = 1

-----------------------------------------------------------------------------
\* s reads as a number: digits, which may have single underscores between
\* them, a sign before them and blanks around
Numeric(s) ==
  LET t == strip(s)
      body == IF t # <<>> /\ Head(t) \in {"+", "-"} THEN Tail(t) ELSE t
  IN /\ body # <<>>
     /\ \A i \in 1..Len(body) :
          \/ body[i] \in Digit
          \/ body[i] = "_" /\ i > 1 /\ i < Len(body)
                           /\ body[i - 1] \in Digit /\ body[i + 1] \in Digit

(* C14: the process exits, with no bot created, exactly when the token is  *)
(* missing, the webhook URL is missing, or the admin identifier is set and *)
(* does not read as a number.  When the admin identifier is missing and    *)
(* token and URL are set, the start goes on, admin_stats_handler answers   *)
(* every sender with the access-denied message, and on_startup sends no    *)
(* notification.                                                           *)
C14_StartupConfig ==
  call.op # "env" =>
    LET fatal == \/ Unset(call.TOKEN)
                 \/ Unset(call.WEBHOOK_URL)
                 \/ ~Unset(call.admin_env) /\ ~Numeric(call.admin_env)
    IN /\ call.op = "exit" <=> fatal
       /\ call.bot <=> ~fatal
       /\ (~fatal /\ Unset(call.admin_env))
            => /\ ~call.notified
               /\ call.op = "admin_stats_handler" => call.reply = "ACCESS_DENIED"

\* with no admin identifier set the process has started and a sender has
\* called the admin command
C14_Witness ==
  /\ call.op = "admin_stats_handler" /\ call.admin_env = None /\ call.bot
  /\ call.reply = "ACCESS_DENIED"

-----------------------------------------------------------------------------
(* C15: when the summary that answers /start or /help of a user with a     *)
(* stored valid date has been sent, the user is in state None, whatever    *)
(* the state was when the command came; when the welcome that answers      *)
(* /start of a user without a stored date has been sent, the user is in    *)
(* WAITING_BIRTH_DATE.  Stated for a reply sent while no other update is   *)
(* being handled.                                                          *)
C15_StartLeavesNone ==
  [][\A u \in Users :
       BagCardinality(tasks) = 1
         => /\ Delivered(u, "WELCOME_RETURN") => fsm'[u] = NoState
            /\ Delivered(u, "WELCOME_NEW") => fsm'[u] = WAITING_BIRTH_DATE
    ]_vars

-----------------------------------------------------------------------------
(* C16: handle_change_date is called only for a sender who is in state     *)
(* None when the update is dispatched; the change-date button text sent in *)
(* WAITING_BIRTH_DATE or in WAITING_NEW_BIRTH_DATE never calls it.         *)
C16_ChangeDateOnlyFromNone ==
  [][\A u \in Users :
       (Begun(u) /\ handle_change_date(u, BUTTONS.change_date)) => fsm[u] = NoState
    ]_vars

-----------------------------------------------------------------------------
\* the state a handler that was called in state raw_state leaves by its own
\* FSM write
Outcome(after, raw_state) ==
  IF after = "keep" THEN raw_state ELSE IF after = "clear" THEN NoState ELSE after

-----------------------------------------------------------------------------
\* the update (u, text) is no command, u is in no awaiting state, and text
\* is no button label
Unmatched(u, text) ==
  /\ fsm[u] = NoState
  /\ ~Command(text, {"/start", "/help", "/superstats"})
  /\ text \notin ButtonLabels

(* C18: the message log only grows at its end, and by the unmatched        *)
(* messages alone: every step leaves the entries there are as they are;    *)
(* the dispatch of an update that is a command, comes in an awaiting state *)
(* or is a button label leaves the log as it was, as does every step that  *)
(* is no dispatch; the dispatch of an unmatched update adds that update,   *)
(* or nothing when the insert fails.                                       *)
C18_LogCountsUnmatched ==
  [][/\ Len(messages') >= Len(messages)
     /\ SubSeq(messages', 1, Len(messages)) = messages
     /\ messages' # messages
          => \E u \in Users :
               /\ Begun(u)
               /\ \A text \in Texts :
                    Dispatched(u, text)
                      => /\ Unmatched(u, text)
                         /\ messages' = Append(messages, <<u, text>>)
    ]_vars

-----------------------------------------------------------------------------
\* what the four report handlers may send
ReportReplies == {"WEEKS_REPORT", "HOURS_REPORT", "PROGRESS_REPORT", "MOTIVATION",
                  "ASK_START", "DATE_FORMAT_ERROR", "INTERNAL_ERROR"}

(* C19: the handling of a report button (weeks, hours, progress,           *)
(* motivation), from its call to the end of its sends, leaves every        *)
(* sender's state, the users table and the message log as they were,       *)
(* whether the sender has a row with a date, no row, or a row whose date   *)
(* validate_date rejects.                                                  *)
C19_ReportsReadOnly ==
  [][\A u \in Users :
       ( \/ Begun(u) /\ \/ handle_years(u, BUTTONS.years)
                        \/ handle_hours(u, BUTTONS.hours)
                        \/ handle_progress(u, BUTTONS.progress)
                        \/ handle_motivation(u, BUTTONS.motivation)
         \/ \E t \in BagToSet(tasks) :
              t.uid = u /\ t.reply \in ReportReplies /\ (answer_ok(t) \/ answer_fail(t)) )
         => fsm' = fsm /\ users' = users /\ messages' = messages
    ]_vars

\* a sender in WAITING_NEW_BIRTH_DATE whose row holds a string validate_date
\* rejects has pressed a report button, and one without a row has
C19_Witness ==
  /\ \E u \in Users :
       /\ fsm[u] = WAITING_NEW_BIRTH_DATE
       /\ <<u, NOT_A_DATE>> \in users
       /\ Pending(u, "DATE_FORMAT_ERROR")
  /\ \E u \in Users : RowsOf(users, u) = {} /\ Pending(u, "ASK_START")

-----------------------------------------------------------------------------
(* C20: when process_birth_date or process_new_birth_date sends the        *)
(* confirmation for a text, the users table holds the stripped text for    *)
(* the sender, and it holds a row for the sender when the confirmation has *)
(* been sent and the state is cleared.                                     *)
C20_ConfirmationImpliesSaved ==
  [][\A u \in Users :
       /\ (Begun(u) /\ (Replies(u, "DATE_SAVED") \/ Replies(u, "DATE_UPDATED")))
            => \A text \in Texts :
                 Dispatched(u, text) => get_user(users', u, TRUE) = strip(text)
       /\ (Delivered(u, "DATE_SAVED") \/ Delivered(u, "DATE_UPDATED"))
            => RowsOf(users', u) # {}
    ]_vars

-----------------------------------------------------------------------------
(* C21: a handler that ends in its error branch leaves the sender's state  *)
(* and row as they were before it ran; in particular, while the            *)
(* INTERNAL_ERROR reply that follows a failed confirmation is on its way   *)
(* to a sender who is still in WAITING_BIRTH_DATE, and no confirmation to  *)
(* that sender is pending, the users table holds no row for the sender.    *)
C21_ErrorLeavesNothingSaved ==
  \A u \in Users :
    ( /\ Pending(u, "INTERNAL_ERROR")
      /\ fsm[u] = WAITING_BIRTH_DATE
      /\ ~Pending(u, "DATE_SAVED") )
      => RowsOf(users, u) = {}

-----------------------------------------------------------------------------
(* C22: the users table changes only in the step in which                  *)
(* process_birth_date or process_new_birth_date, called for a sender who   *)
(* is in WAITING_BIRTH_DATE or WAITING_NEW_BIRTH_DATE, saves the stripped  *)
(* text validate_date accepted, and only in the sender's row; every other  *)
(* step (/start, /help, /superstats, the buttons, the fallback, the sends, *)
(* the weekly job, a restart) leaves it as it was; a user who has a row    *)
(* keeps one, and no user has two.                                         *)
C22_OnlyDateInputWrites ==
  [][/\ users' # users
          => \E u \in Users :
               /\ fsm[u] \in {WAITING_BIRTH_DATE, WAITING_NEW_BIRTH_DATE}
               /\ \A v \in Users \ {u} : RowsOf(users', v) = RowsOf(users, v)
               /\ \E text \in Texts \ {None} :
                    /\ validate_date(strip(text)) # NoDate
                    /\ users' = save_user(users, u, strip(text), TRUE)
                    /\ \/ process_birth_date(u, text)
                       \/ process_new_birth_date(u, text)
     /\ \A u \in Users :
          /\ RowsOf(users, u) # {} => RowsOf(users', u) # {}
          /\ Cardinality(RowsOf(users', u)) <= 1
    ]_vars

\* a user in WAITING_NEW_BIRTH_DATE has sent a date that replaced the row
\* of the date sent first, while the other user's row is as it was
C22_Witness ==
  \E u \in Users, v \in Users :
    /\ u # v
    /\ Pending(u, "DATE_UPDATED")
    /\ users = {<<u, strip(DATE_PADDED)>>, <<v, DATE_15_05_1990>>}

-----------------------------------------------------------------------------
(* What a handler does for a sender, from what is the sender's own: the    *)
(* state raw_state, the rows tbl of the sender, and the text.  Each        *)
(* outcome is the send the handler starts and the rows it leaves.          *)

ReadOutcomes(u, tbl, report) ==
  { <<Task(u, IF birth_date_str = None \/ birth_date_str = <<>> THEN "ASK_START"
              ELSE IF validate_date(birth_date_str) = NoDate THEN "DATE_FORMAT_ERROR"
              ELSE report, "keep", TRUE), tbl>> :
      birth_date_str \in {get_user(tbl, u, ok) : ok \in BOOLEAN} }

DateOutcomes(u, tbl, text, confirmation) ==
  IF text = None THEN {<<Task(u, "INTERNAL_ERROR", "keep", FALSE), tbl>>}
  ELSE IF validate_date(strip(text)) = NoDate
  THEN {<<Task(u, "INVALID_DATE_RESPONSE", "keep", TRUE), tbl>>}
  ELSE { <<Task(u, confirmation, "clear", TRUE), save_user(tbl, u, strip(text), ok)>> :
           ok \in BOOLEAN }

StartOutcomes(u, tbl) ==
  { <<IF birth_date # None /\ birth_date # <<>>
      THEN IF validate_date(birth_date) = NoDate
           THEN Task(u, "DATE_FORMAT_ERROR", WAITING_BIRTH_DATE, TRUE)
           ELSE Task(u, "WELCOME_RETURN", "keep", TRUE)
      ELSE Task(u, "WELCOME_NEW", WAITING_BIRTH_DATE, TRUE), tbl>> :
      birth_date \in {get_user(tbl, u, ok) : ok \in BOOLEAN} }

Local(u, raw_state, tbl, text) ==
  LET h == Handler[raw_state][text]
  IN CASE h = "start_handler" -> StartOutcomes(u, tbl)
       [] h = "process_birth_date" -> DateOutcomes(u, tbl, text, "DATE_SAVED")
       [] h = "process_new_birth_date" -> DateOutcomes(u, tbl, text, "DATE_UPDATED")
       [] h = "handle_years" -> ReadOutcomes(u, tbl, "WEEKS_REPORT")
       [] h = "handle_hours" -> ReadOutcomes(u, tbl, "HOURS_REPORT")
       [] h = "handle_progress" -> ReadOutcomes(u, tbl, "PROGRESS_REPORT")
       [] h = "handle_motivation" -> {<<Task(u, "MOTIVATION", "keep", TRUE), tbl>>}
       [] h = "handle_change_date"
            -> {<<Task(u, "ASK_NEW_DATE", WAITING_NEW_BIRTH_DATE, TRUE), tbl>>}
       [] OTHER -> {<<Task(u, "FALLBACK_PHRASE", "keep", FALSE), tbl>>}

\* this step changes what is v's own: the state, the rows, the pending sends
Touches(v) ==
  \/ fsm'[v] # fsm[v]
  \/ RowsOf(users', v) # RowsOf(users, v)
  \/ \E t \in BagToSet(tasks) \cup BagToSet(tasks') :
       t.uid = v /\ CopiesIn(t, tasks') # CopiesIn(t, tasks)

\* this step is a step of a unit of work of v: its dispatch or the end of a send
Own(v) ==
  \/ \E t \in BagToSet(tasks) : t.uid = v /\ (answer_ok(t) \/ answer_fail(t))
  \/ Begun(v) /\ \E text \in Texts : Handles(Handler[fsm[v]][text], v, text)

(* C23: the users do not interfere.  A step that changes a user's state,   *)
(* row or pending sends is a step of that user's own unit of work (or a    *)
(* restart of the process); a step of the weekly job changes no user's.    *)
(* And what a user's update is answered with, and the row it leaves, are   *)
(* among the outcomes given by the user's own state and row alone, so the  *)
(* states and replies a user sees are those of a run without the other     *)
(* user's updates.                                                         *)
C23_Isolation ==
  [][\A u \in Users :
       /\ Touches(u) => (restart \/ Own(u))
       /\ (BagCardinality(tasks') > BagCardinality(tasks) /\ Begun(u))
            => \A text \in Texts :
                 \/ \E o \in Local(u, fsm[u], RowsOf(users, u), text) :
                      /\ RowsOf(users', u) = o[2]
                      /\ CopiesIn(o[1], tasks') = CopiesIn(o[1], tasks) + 1
                 \/ ~Handles(Handler[fsm[u]][text], u, text)
    ]_vars

\* while one user's confirmation is pending and the other, with a row of
\* their own holding another date, is in WAITING_NEW_BIRTH_DATE with a
\* rejection pending
C23_Witness ==
  \E u \in Users, v \in Users :
    /\ u # v
    /\ Pending(u, "DATE_SAVED") /\ fsm[u] = WAITING_BIRTH_DATE
    /\ fsm[v] = WAITING_NEW_BIRTH_DATE /\ Pending(v, "INVALID_DATE_RESPONSE")
    /\ RowsOf(users, u) # {} /\ RowsOf(users, v) # {}
    /\ RowsOf(users, u) # {<<u, (CHOOSE r \in RowsOf(users, v) : TRUE)[2]>>}

-----------------------------------------------------------------------------
\* the user ids of the rows of a sequence
Ids(rows) == {rows[k][1] : k \in 1..Len(rows)}

(* C24: a run of weekly_updates_task works on the rows it read when it     *)
(* started.  The step that starts a run takes the rows of the users table  *)
(* of that moment; until the run ends its snapshot is the same in every    *)
(* step, whatever the handlers write meanwhile, and a step that writes the *)
(* users table leaves the job as it was; the attempts of a run are made    *)
(* for distinct users of the snapshot, one at a time in its order, and the *)
(* pending send is for a row of the snapshot with the date it holds.       *)
C24_BroadcastSnapshot ==
  [][/\ (job.pc = "idle" /\ job'.pc = "sending")
          => /\ job'.snapshot = RowsInOrder(users)
             /\ job'.attempts = <<>>
     /\ (job.pc = "sending" /\ job'.pc = "sending")
          => /\ job'.snapshot = job.snapshot
             /\ \/ job' = job
                \/ /\ job'.i > job.i
                   /\ \E delivered \in BOOLEAN :
                        job'.attempts = Append(job.attempts, <<job.snapshot[job.i][1], delivered>>)
     /\ users' # users => job' = job
     /\ job'.pc = "sending"
          => /\ job'.i \in 1..Len(job'.snapshot)
             /\ validate_date(job'.snapshot[job'.i][2]) # NoDate
             /\ Cardinality(Ids(job'.snapshot)) = Len(job'.snapshot)
             /\ Cardinality(Ids(job'.attempts)) = Len(job'.attempts)
             /\ Ids(job'.attempts) \subseteq Ids(SubSeq(job'.snapshot, 1, job'.i - 1))
    ]_vars

\* while the second send of a run is pending, the user it is for has
\* replaced the date, and the run still holds the date it read
C24_Witness ==
  /\ job.pc = "sending" /\ job.i = 2 /\ Len(job.attempts) = 1
  /\ \E u \in Users :
       /\ job.snapshot[job.i] = <<u, DATE_15_05_1990>>
       /\ <<u, strip(DATE_PADDED)>> \in users

====
